---- MODULE Spec2Model ----
(***************************************************************************)
(* Model of the PDF question-answering backend: the /ask route of the     *)
(* express server (upload persistence, upload-session resolution, the     *)
(* per-document pipeline and the completion call).                        *)
(*                                                                         *)
(* Strings that the code inspects character by character (file names,     *)
(* upload ids) are sequences of one-character strings.  The file system   *)
(* under UPLOAD_DIR is a function from a directory key to the files it    *)
(* holds; the key "." is UPLOAD_DIR itself, every other key is the name   *)
(* of a directory directly below it.                                      *)
(***************************************************************************)
EXTENDS Integers, Sequences, FiniteSets, TLC

\* ---------------------------------------------------------------- bounds
\* last value of the millisecond clock
MaxClock == 2

\* the most units a ranked document has
MaxUnits == 3

\* the longest text that is split into units
MaxTextLen == 5

\* the most documents whose contexts are combined
MaxDocs == 2

\* the most components of an embedding vector
MaxDim == 2

\* ------------------------------------------------------ program constants
TopK == 5
BatchSize == 8
ChunkSizeWords == 300
MaxPages == 400

\* scores are kept in units of 1/ScoreScale: toFixed(4)
ScoreScale == 10000

\* -------------------------------------------------------------- alphabet
Ascii ==
  << " ", "-", ".", "0", "1", "2", "3", "4", "5", "6", "7", "8", "9",
     "A", "B", "C", "D", "E", "F", "G", "H", "I", "J", "K", "L", "M",
     "N", "O", "P", "Q", "R", "S", "T", "U", "V", "W", "X", "Y", "Z",
     "_",
     "a", "b", "c", "d", "e", "f", "g", "h", "i", "j", "k", "l", "m",
     "n", "o", "p", "q", "r", "s", "t", "u", "v", "w", "x", "y", "z" >>

Code(c) == CHOOSE i \in 1..Len(Ascii) : Ascii[i] = c

DigitChars == << "0", "1", "2", "3", "4", "5", "6", "7", "8", "9" >>

IsDigit(c) == \E i \in 1..10 : DigitChars[i] = c

Upper == << "A", "B", "C", "D", "E", "F", "G", "H", "I", "J", "K", "L", "M",
            "N", "O", "P", "Q", "R", "S", "T", "U", "V", "W", "X", "Y", "Z" >>

Lower == << "a", "b", "c", "d", "e", "f", "g", "h", "i", "j", "k", "l", "m",
            "n", "o", "p", "q", "r", "s", "t", "u", "v", "w", "x", "y", "z" >>

IsLetter(c) == \E i \in 1..26 : Upper[i] = c \/ Lower[i] = c

\* String.prototype.toLowerCase, one character
ToLowerChar(c) ==
  IF \E i \in 1..26 : Upper[i] = c
  THEN Lower[CHOOSE i \in 1..26 : Upper[i] = c]
  ELSE c

toLowerCase(s) == [i \in 1..Len(s) |-> ToLowerChar(s[i])]

\* String(n) of a non-negative integer: its decimal digits
RECURSIVE DecimalString(_)
DecimalString(n) ==
  IF n < 10 THEN << DigitChars[n + 1] >>
  ELSE DecimalString(n \div 10) \o << DigitChars[(n % 10) + 1] >>

\* strcmp order on strings
StrLess(a, b) ==
  \/ /\ Len(a) < Len(b)
     /\ \A i \in 1..Len(a) : a[i] = b[i]
  \/ \E k \in 1..Len(a) :
       /\ k <= Len(b)
       /\ \A i \in 1..(k - 1) : a[i] = b[i]
       /\ Code(a[k]) < Code(b[k])

RECURSIVE SortNames(_)
SortNames(S) ==
  IF S = {} THEN << >>
  ELSE LET m == CHOOSE x \in S : \A y \in S \ {x} : StrLess(x, y)
       IN  << m >> \o SortNames(S \ {m})

\* ------------------------------------------------- names and identifiers
Null == << >>

\* the upload root, as a directory key and as the upload id that names it
Root == << "." >>

\* ids crypto.randomUUID() can return
IdPool == { << "u", "1" >>, << "u", "2" >> }

\* an upload id no request ever minted
Bogus == << "x" >>

\* original names a client gives its uploaded parts: "b.pdf" and "a b.pdf"
NameB == << "b", ".", "p", "d", "f" >>

NameAB == << "a", " ", "b", ".", "p", "d", "f" >>

\* the file parts of a request, in submission order: none, one file, two
\* files with different names, two files with the same name
PartLists == { << >>, << NameB >>, << NameB, NameAB >>, << NameB, NameB >> }

\* question field of the request body: not sent, empty, or a text
NoQuestion == [given |-> FALSE, text |-> << >>]

Questions ==
  { NoQuestion,
    [given |-> TRUE, text |-> << >>],
    [given |-> TRUE, text |-> << "q" >>] }

\* JavaScript truthiness of req.body.question
Truthy(q) == q.given /\ q.text # << >>

\* numbers of page units the segmenter can produce for a document
PageCounts == { BatchSize + 1 }

\* the requests of a run; they overlap in every way their steps allow
Reqs == { 1, 2 }

\* -------------------------------------------------- multer disk storage
\* file.originalname.replace(/[^a-z0-9.\-_]/gi, "_")
IsSafeChar(c) == IsLetter(c) \/ IsDigit(c) \/ c \in { ".", "-", "_" }

Sanitize(s) == [i \in 1..Len(s) |-> IF IsSafeChar(s[i]) THEN s[i] ELSE "_"]

\* `${Date.now()}_${safe}`
StorageName(now, originalname) ==
  DecimalString(now) \o << "_" >> \o Sanitize(originalname)

\* fname.replace(/^\d+_/, "")
StripPrefix(fname) ==
  LET run == { k \in 1..Len(fname) : \A i \in 1..k : IsDigit(fname[i]) }
      n   == Cardinality(run)
  IN  IF n >= 1 /\ Len(fname) > n /\ fname[n + 1] = "_"
      THEN SubSeq(fname, n + 2, Len(fname))
      ELSE fname

\* n.toLowerCase().endsWith(".pdf")
EndsWithPdf(n) ==
  /\ Len(n) >= 4
  /\ SubSeq(toLowerCase(n), Len(n) - 3, Len(n)) = << ".", "p", "d", "f" >>

\* ------------------------------------------------------ finite functions
Put(f, k, v) == [x \in (DOMAIN f) \cup {k} |-> IF x = k THEN v ELSE f[x]]

Remove(f, k) == [x \in (DOMAIN f) \ {k} |-> f[x]]

EmptyDir == [x \in {} |-> << >>]

\* ----------------------------------------------------------------- state
VARIABLES
  clock,   \* Date.now()
  dirs,    \* directory key -> (file name -> content)
  req,     \* per request: inputs, handler locals, response; and three
           \* records of its history: calls counts the invocations of the
           \* external capabilities, failed names the one that failed,
           \* responses counts the responses sent
  calc     \* a part of the program studied on its own: one call of a
           \* pure function of the pipeline (its arguments and, once it has
           \* returned, its result), or the state of the bundled client

vars == << clock, dirs, req, calc >>

\* no part under study
NoCalc == [fn |-> "none"]

NoResponse ==
  [status |-> 0, error |-> "", hasAnswer |-> FALSE, sources |-> << >>,
   hasUploadId |-> FALSE, uploadId |-> Null]

NoCalls == [extract |-> 0, embed |-> 0, complete |-> 0]

IdleReq ==
  [pc |-> "idle",
   parts |-> << >>, bodyUploadId |-> Null, question |-> NoQuestion,
   allFiles |-> << >>, uploadId |-> Null, files |-> << >>,
   fi |-> 0,
   perDocTopPages |-> << >>,
   calls |-> NoCalls, failed |-> "",
   responses |-> 0,
   response |-> NoResponse]

\* the server after start-up: an empty upload directory, no request yet
ServerIdle ==
  /\ clock = 1
  /\ dirs = [d \in { Root } |-> EmptyDir]
  /\ req = [r \in Reqs |-> IdleReq]

Init ==
  /\ ServerIdle
  /\ calc = NoCalc

\* fs.existsSync(path.join(UPLOAD_DIR, id))
existsSync(d, id) == id \in DOMAIN d

\* fs.existsSync of a file path <<dir, name>>
FileExists(d, p) == p[1] \in DOMAIN d /\ p[2] \in DOMAIN d[p[1]]

\* fs.readdirSync(dir): the files of dir and, for the root, its directories,
\* in the order of their names (the order the runtime's scandir returns)
readdirSync(d, id) ==
  SortNames((DOMAIN d[id]) \cup (IF id = Root THEN (DOMAIN d) \ { Root } ELSE {}))

\* ------------------------------------------------------ request arrival
\* the session ids the responses sent so far have given to clients
DisclosedIds ==
  { req[r].response.uploadId : r \in { q \in Reqs : req[q].response.hasUploadId } }
    \ { Null }

\* the body's uploadId: none, an id that names nothing, or an id a client
\* has read in a response
ClientUploadIds == { Null, Bogus } \cup DisclosedIds

\* a multipart request reaches upload.array("pdf"); its parts are the
\* uploaded files, in submission order
Arrive(r) ==
  /\ req[r].pc = "idle"
  /\ \A q \in Reqs : q < r => req[q].pc # "idle"
  /\ \E names \in PartLists :
       req' = [req EXCEPT ![r] =
                 [@ EXCEPT !.pc = "upload",
                           !.parts = [i \in 1..Len(names) |->
                                        [originalname |-> names[i], content |-> << r, i >>]]]]
  /\ UNCHANGED << clock, dirs, calc >>

\* multer.diskStorage: the next part of the request is written to
\* UPLOAD_DIR under the name the filename callback returns.  Date.now()
\* returns the time of the call, which is not before the last time read.
StageFile(r) ==
  /\ req[r].pc = "upload"
  /\ Len(req[r].allFiles) < Len(req[r].parts)
  /\ \E now \in clock..MaxClock :
       LET k    == Len(req[r].allFiles) + 1
           part == req[r].parts[k]
           name == StorageName(now, part.originalname)
           file == [originalname |-> part.originalname,
                    filename |-> name,
                    path |-> << Root, name >>,
                    savedToUploadId |-> Null]
       IN  /\ clock' = now
           /\ dirs' = [dirs EXCEPT ![Root] = Put(@, name, part.content)]
           /\ req' = [req EXCEPT ![r].allFiles = Append(@, file)]
  /\ UNCHANGED calc

\* ------------------------------------------------------------ responses
\* res.status(code).json({ error, details })
ErrorResponse(code, msg) ==
  [status |-> code, error |-> msg, hasAnswer |-> FALSE, sources |-> << >>,
   hasUploadId |-> FALSE, uploadId |-> Null]

\* res.json({ answer, sources, uploadId: uploadId || null })
SuccessResponse(sources, uploadId) ==
  [status |-> 200, error |-> "", hasAnswer |-> TRUE, sources |-> sources,
   hasUploadId |-> TRUE, uploadId |-> uploadId]

\* variant: the handler goes on after it has responded
Respond_NotFinished(q, resp) ==
  [q EXCEPT !.response = resp, !.responses = @ + 1]

\* variant: every response, errors included, carries the request's
\* session id
Respond_ExposingId(q, resp) ==
  [q EXCEPT !.pc = "done",
            !.response = [resp EXCEPT !.hasUploadId = TRUE, !.uploadId = q.uploadId],
            !.responses = @ + 1,
            !.fi = 0, !.perDocTopPages = << >>]

\* a response ends the handler: its locals are gone, the request keeps what
\* it sent, what it resolved, what it invoked and what it was answered
Respond(q, resp) ==
  [q EXCEPT !.pc = "done", !.response = resp,
            !.responses = @ + 1,
            !.fi = 0, !.perDocTopPages = << >>]

\* ------------------------------------------- the /ask handler, first part
\* req.body && req.body.uploadId ? String(req.body.uploadId) : null
UploadIdFromClient(bodyUploadId) ==
  IF bodyUploadId # << >> THEN bodyUploadId ELSE Null

\* variant: the generator repeats itself, always giving the same id
randomUUID_Repeating(d) ==
  CHOOSE i \in IdPool : \A j \in IdPool : i = j \/ StrLess(i, j)

\* crypto.randomUUID(): an id that names no existing directory.  Ids are
\* opaque, so the choice among the unused ones is fixed.
randomUUID(d) ==
  IF IdPool \subseteq DOMAIN d THEN CHOOSE i \in IdPool : TRUE
  ELSE CHOOSE i \in IdPool \ DOMAIN d : \A j \in IdPool \ DOMAIN d : i = j \/ StrLess(i, j)

\* if (!fs.existsSync(dir)) fs.mkdirSync(dir, { recursive: true })
mkdirIfMissing(d, id) == IF existsSync(d, id) THEN d ELSE Put(d, id, EmptyDir)

\* the loop that moves every multer-saved file into the uploadId folder.
\* renameSync and its copyFileSync/unlinkSync fallback both need the source
\* file; when it is gone the exception leaves the loop.
RECURSIVE MoveFiles(_, _, _, _)
MoveFiles(d, id, fl, k) ==
  IF k > Len(fl) THEN [dirs |-> d, files |-> fl, threw |-> FALSE]
  ELSE LET f == fl[k]
       IN  IF FileExists(d, f.path)
           THEN MoveFiles(
                  [d EXCEPT ![f.path[1]] = Remove(@, f.filename),
                            ![id] = Put(@, f.filename, d[f.path[1]][f.filename])],
                  id,
                  [fl EXCEPT ![k] = [@ EXCEPT !.path = << id, f.filename >>,
                                              !.savedToUploadId = id]],
                  k + 1)
           ELSE [dirs |-> d, files |-> fl, threw |-> TRUE]

\* the file objects the follow-up branch builds from a session directory
LoadedFiles(d, id) ==
  LET names == SelectSeq(readdirSync(d, id), EndsWithPdf)
  IN  [i \in 1..Len(names) |->
         [originalname |-> StripPrefix(names[i]),
          filename |-> names[i],
          path |-> << id, names[i] >>,
          savedToUploadId |-> Null]]

\* variant: the guard forgets to look at the uploaded files
ShouldMint_AnyRequest(allFiles, uploadId) == uploadId = Null

\* allFiles.length > 0 && !uploadId
ShouldMint(allFiles, uploadId) == Len(allFiles) > 0 /\ uploadId = Null

\* (allFiles.length === 0) && uploadIdFromClient
IsFollowUp(allFiles, uploadIdFromClient) ==
  Len(allFiles) = 0 /\ uploadIdFromClient # Null

\* variant: the question is checked before the documents
CheckInputs_QuestionFirst(q, files, question) ==
  IF ~Truthy(question)
  THEN Respond([q EXCEPT !.files = files],
               ErrorResponse(400, "No question provided"))
  ELSE IF Len(files) = 0
  THEN Respond(q, ErrorResponse(400, "No PDFs uploaded"))
  ELSE [q EXCEPT !.pc = "parse", !.files = files, !.fi = 1]

\* lines 141-149: the two input checks, in the order the handler makes
\* them; a request that passes both enters the per-document loop
CheckInputs(q, files, question) ==
  IF Len(files) = 0
  THEN Respond(q, ErrorResponse(400, "No PDFs uploaded"))
  ELSE IF ~Truthy(question)
  THEN Respond([q EXCEPT !.files = files],
               ErrorResponse(400, "No question provided"))
  ELSE [q EXCEPT !.pc = "parse", !.files = files, !.fi = 1]

\* lines 75-149, which run without suspending: resolve the upload id, move
\* new files into a fresh session directory or load the files of an
\* existing one, then check the inputs.  An exception of the move loop
\* reaches the outer catch.  A new directory needs an unused id.
HandlerOn(r, ids) ==
  /\ req[r].pc = "upload"
  /\ Len(req[r].allFiles) = Len(req[r].parts)
  /\ \E bodyId \in ids, question \in Questions :
       LET allFiles == req[r].allFiles
           uploadIdFromClient == UploadIdFromClient(bodyId)
           mint  == ShouldMint(allFiles, uploadIdFromClient)
           newId == randomUUID(dirs)
           moved == IF mint
                    THEN MoveFiles(mkdirIfMissing(dirs, newId), newId, allFiles, 1)
                    ELSE [dirs |-> dirs, files |-> allFiles, threw |-> FALSE]
           files == IF IsFollowUp(allFiles, uploadIdFromClient)
                    THEN IF existsSync(moved.dirs, uploadIdFromClient)
                         THEN LoadedFiles(moved.dirs, uploadIdFromClient)
                         ELSE << >>
                    ELSE moved.files
           uploadId == IF mint THEN newId ELSE uploadIdFromClient
           base == [req[r] EXCEPT !.bodyUploadId = bodyId,
                                  !.question = question,
                                  !.allFiles = moved.files,
                                  !.uploadId = uploadId]
       IN  /\ mint => ~(IdPool \subseteq DOMAIN dirs)
           /\ dirs' = moved.dirs
           /\ req' = [req EXCEPT ![r] =
                IF moved.threw
                THEN Respond([base EXCEPT !.failed = "move"],
                             ErrorResponse(500, "Error processing request"))
                ELSE CheckInputs(base, files, question)]
  /\ UNCHANGED << clock, calc >>

\* --------------------------------------- the /ask handler, per document
FileError == "Error parsing/indexing file"

CurrentFile(r) == req[r].files[req[r].fi]

\* variant: the completion call is made after the first document
NextPc_AfterFirst(q) == "llama"

\* the loop header: the next document, or the completion call after the last
NextPc(q) == IF q.fi < Len(q.files) THEN "parse" ELSE "llama"

\* variant: the catch logs the error and the loop goes on to the next document
OnFileError_Skip(q, what) ==
  [q EXCEPT !.failed = what, !.fi = @ + 1, !.pc = NextPc(q)]

\* lines 196-200: the catch of the per-document try block
OnFileError(q, what) ==
  Respond([q EXCEPT !.failed = what], ErrorResponse(500, FileError))

\* lines 162-181: read the file and extract its text.  The two fallbacks
\* retry the same extraction, each reading the file first; the cascade is
\* one extraction step that succeeds or fails as a whole, and a missing
\* file fails it without reaching the extractor.
ParseDoc(r) ==
  /\ req[r].pc = "parse"
  /\ IF ~FileExists(dirs, CurrentFile(r).path)
     THEN req' = [req EXCEPT ![r] = OnFileError(@, "read")]
     ELSE \/ req' = [req EXCEPT ![r] =
                OnFileError([@ EXCEPT !.calls.extract = @ + 1], "extract")]
          \/ req' = [req EXCEPT ![r] =
                [@ EXCEPT !.pc = "vsearch", !.calls.extract = @ + 1]]
  /\ UNCHANGED << clock, dirs, calc >>

\* number of passes of the batch loop over n pages
Batches(n) == (n + BatchSize - 1) \div BatchSize

\* scored.slice(0, Math.min(topK, scored.length)), as a number of pages
TopPagesCount(n) == IF TopK < n THEN TopK ELSE n

\* line 187 and the call of vectorSearchForPdfBuffer.  After the file is
\* read the function works on its arguments only, so its suspensions are
\* not visible to other requests and the call is one step.  It ends at the
\* first failure (the extraction, the k-th page batch or the question
\* embedding that follows the last batch) or returns the top pages.
VectorSearch(r) ==
  /\ req[r].pc = "vsearch"
  /\ IF ~FileExists(dirs, CurrentFile(r).path)
     THEN req' = [req EXCEPT ![r] = OnFileError(@, "read")]
     ELSE \/ req' = [req EXCEPT ![r] =
                OnFileError([@ EXCEPT !.calls.extract = @ + 1], "extract")]
          \/ \E n \in PageCounts : \E k \in 1..(Batches(n) + 1) :
               req' = [req EXCEPT ![r] =
                 OnFileError([@ EXCEPT !.calls.extract = @ + 1,
                                       !.calls.embed = @ + k], "embed")]
          \/ \E n \in PageCounts :
               req' = [req EXCEPT ![r] =
                 [@ EXCEPT !.calls.extract = @ + 1,
                           !.calls.embed = @ + Batches(n) + 1,
                           !.perDocTopPages =
                              Append(@, [filename |-> CurrentFile(r).originalname,
                                         topPages |-> TopPagesCount(n)]),
                           !.fi = @ + 1,
                           !.pc = NextPc(req[r])]]
  /\ UNCHANGED << clock, dirs, calc >>

\* ------------------------------------------------- the completion call
\* perDocTopPages.map(d => ({ filename, pages }))
Sources(perDoc) ==
  [i \in 1..Len(perDoc) |->
     [filename |-> perDoc[i].filename, pages |-> perDoc[i].topPages]]

\* lines 210-226: askWithLlama makes one chatCompletion call; its failure
\* is answered by the 500 response, its result by the success response
AskLlama(r) ==
  /\ req[r].pc = "llama"
  /\ \/ req' = [req EXCEPT ![r] =
           Respond([@ EXCEPT !.calls.complete = @ + 1, !.failed = "complete"],
                   ErrorResponse(500, "LLM inference failed"))]
     \/ req' = [req EXCEPT ![r] =
           Respond([@ EXCEPT !.calls.complete = @ + 1],
                   SuccessResponse(Sources(req[r].perDocTopPages), req[r].uploadId))]
  /\ UNCHANGED << clock, dirs, calc >>

Handler(r) == HandlerOn(r, ClientUploadIds)

Next ==
  \/ \E r \in Reqs : Arrive(r)
  \/ \E r \in Reqs : StageFile(r)
  \/ \E r \in Reqs : Handler(r)
  \/ \E r \in Reqs : ParseDoc(r)
  \/ \E r \in Reqs : VectorSearch(r)
  \/ \E r \in Reqs : AskLlama(r)

Spec == Init /\ [][Next]_vars

\* The uploadId field is a string of the client's choosing (line 79), and
\* path.join(UPLOAD_DIR, ".") is the upload root itself: the same server
\* with clients that also send "." as uploadId.
AnyClientUploadIds == ClientUploadIds \cup { Root }

HandlerAnyId(r) == HandlerOn(r, AnyClientUploadIds)

NextAnyId ==
  \/ \E r \in Reqs : Arrive(r)
  \/ \E r \in Reqs : StageFile(r)
  \/ \E r \in Reqs : HandlerAnyId(r)
  \/ \E r \in Reqs : ParseDoc(r)
  \/ \E r \in Reqs : VectorSearch(r)
  \/ \E r \in Reqs : AskLlama(r)

SpecAnyId == Init /\ [][NextAnyId]_vars

\* ============================================ vectorStore.js: the ranker
\* Scores are cosine similarities; the model keeps them as integers in
\* units of 1/10000, the resolution of the context headers.
ScoreValues == { -2500, 0, 10000 }

Min(a, b) == IF a < b THEN a ELSE b
Max(a, b) == IF a > b THEN a ELSE b

\* Array.prototype.slice(start, end): a negative index counts from the end
slice(arr, start, end) ==
  LET len  == Len(arr)
      from == IF start < 0 THEN Max(len + start, 0) ELSE Min(start, len)
      to   == IF end < 0 THEN Max(len + end, 0) ELSE Min(end, len)
  IN  SubSeq(arr, from + 1, to)

\* variant: the units are numbered from 0
Scored_FromZero(scores) ==
  [i \in 1..Len(scores) |-> [pageNumber |-> i - 1, score |-> scores[i]]]

\* pages.map((text, idx) => ({ pageNumber: idx + 1, text, score }))
Scored(scores) ==
  [i \in 1..Len(scores) |-> [pageNumber |-> i, score |-> scores[i]]]

\* variant: the comparator ranks the lowest score first
ByScoreDesc_Ascending(a, b) == a.score - b.score

\* the comparator (a, b) => b.score - a.score
ByScoreDesc(a, b) == b.score - a.score

\* Array.prototype.sort(comparator) is stable: an element goes behind
\* every element that the comparator does not put after it
RECURSIVE InsertSorted(_, _)
InsertSorted(sorted, x) ==
  IF sorted = << >> THEN << x >>
  ELSE IF ByScoreDesc(Head(sorted), x) <= 0
       THEN << Head(sorted) >> \o InsertSorted(Tail(sorted), x)
       ELSE << x >> \o sorted

RECURSIVE sort(_)
sort(arr) ==
  IF arr = << >> THEN << >>
  ELSE InsertSorted(sort(SubSeq(arr, 1, Len(arr) - 1)), arr[Len(arr)])

\* scored.sort(...); scored.slice(0, Math.min(topK, scored.length))
TopPages(scores, topK) ==
  slice(sort(Scored(scores)), 0, Min(topK, Len(scores)))

\* the score lists of 1..MaxUnits units and the topK options a caller can pass
ScoreLists == UNION { [1..n -> ScoreValues] : n \in 1..MaxUnits }
TopKOpts == (-MaxUnits..(MaxUnits + 1)) \cup { TopK }

InitRank ==
  /\ ServerIdle
  /\ calc \in { [fn |-> "rank", scores |-> s, topK |-> k,
                 returned |-> FALSE, topPages |-> << >>] :
                s \in ScoreLists, k \in TopKOpts }

\* one call of the ranking part of vectorSearchForPdfBuffer
Rank ==
  /\ calc.fn = "rank"
  /\ ~calc.returned
  /\ calc' = [calc EXCEPT !.returned = TRUE,
                          !.topPages = TopPages(calc.scores, calc.topK)]
  /\ UNCHANGED << clock, dirs, req >>

NextRank == Rank

SpecRank == InitRank /\ [][NextRank]_vars

\* ============================== vectorStore.js: splitting text into units
FF == "\f"
Space == " "

\* the characters a text is made of in the model: two letters, the blank
\* and the form feed
TextChars == { "a", "b", Space, FF }

\* what String.prototype.trim and the pattern \s take for white space
WhiteSpace == { Space, "\t", "\n", "\r", FF }
IsSpace(c) == c \in WhiteSpace

\* fullText.includes(c)
includes(text, c) == \E i \in 1..Len(text) : text[i] = c

\* index of the first character of text that is one of chars
FirstIndex(text, chars) ==
  CHOOSE i \in 1..Len(text) :
    text[i] \in chars /\ \A j \in 1..(i - 1) : text[j] \notin chars

\* fullText.split("\f"): the pieces between the separators, empty ones kept
RECURSIVE split(_, _)
split(text, sep) ==
  IF ~includes(text, sep) THEN << text >>
  ELSE LET i == FirstIndex(text, { sep })
       IN  << SubSeq(text, 1, i - 1) >> \o split(SubSeq(text, i + 1, Len(text)), sep)

RECURSIVE trimStart(_)
trimStart(text) ==
  IF text # << >> /\ IsSpace(Head(text)) THEN trimStart(Tail(text)) ELSE text

RECURSIVE trimEnd(_)
trimEnd(text) ==
  IF text # << >> /\ IsSpace(text[Len(text)])
  THEN trimEnd(SubSeq(text, 1, Len(text) - 1))
  ELSE text

\* variant: only leading white space is removed
trim_StartOnly(text) == trimStart(text)

\* String.prototype.trim
trim(text) == trimEnd(trimStart(text))

\* .filter(Boolean) on strings: the empty string is dropped
filterBoolean(strs) == SelectSeq(strs, LAMBDA p : p # << >>)

\* fullText.split(/\s+/): every maximal run of white space is one separator
RECURSIVE splitWhitespace(_)
splitWhitespace(text) ==
  IF \A i \in 1..Len(text) : ~IsSpace(text[i]) THEN << text >>
  ELSE LET i == FirstIndex(text, WhiteSpace)
       IN  << SubSeq(text, 1, i - 1) >>
             \o splitWhitespace(trimStart(SubSeq(text, i + 1, Len(text))))

\* words.join(sep)
RECURSIVE join(_, _)
join(strs, sep) ==
  IF strs = << >> THEN << >>
  ELSE IF Len(strs) = 1 THEN strs[1]
  ELSE strs[1] \o << sep >> \o join(Tail(strs), sep)

\* variant: the loop advances by one word, so consecutive chunks overlap
ChunkStep_One(chunkSizeWords) == 1

\* i += chunkSizeWords
ChunkStep(chunkSizeWords) == chunkSizeWords

\* for (let i = 0; i < words.length; i += chunkSizeWords) { push; break at maxPages }
RECURSIVE ChunkLoop(_, _, _, _, _)
ChunkLoop(words, i, pages, chunkSizeWords, maxPages) ==
  IF ~(i < Len(words)) THEN pages
  ELSE LET pushed == Append(pages, join(slice(words, i, i + chunkSizeWords), Space))
       IN  IF Len(pushed) >= maxPages THEN pushed
           ELSE ChunkLoop(words, i + ChunkStep(chunkSizeWords), pushed,
                          chunkSizeWords, maxPages)

\* variant: the fallback unit is an empty text
OrWholeText_Empty(pages, fullText) ==
  IF Len(pages) = 0 THEN << << >> >> ELSE pages

\* if (!pages.length) pages = [fullText || ""]
OrWholeText(pages, fullText) ==
  IF Len(pages) = 0 THEN << fullText >> ELSE pages

\* lines 131-143: the units ("pages") of a document's text
SplitPages(fullText, chunkSizeWords, maxPages) ==
  LET split0 == IF includes(fullText, FF)
                THEN filterBoolean([i \in 1..Len(split(fullText, FF)) |->
                                      trim(split(fullText, FF)[i])])
                ELSE ChunkLoop(filterBoolean(splitWhitespace(fullText)), 0, << >>,
                               chunkSizeWords, maxPages)
      pages  == OrWholeText(split0, fullText)
  IN  IF Len(pages) > maxPages THEN slice(pages, 0, maxPages) ELSE pages

\* the texts of up to MaxTextLen characters, and the options a caller can
\* pass: small values and the defaults
Texts == UNION { [1..n -> TextChars] : n \in 0..MaxTextLen }
ChunkSizeOpts == { 1, 2, ChunkSizeWords }
MaxPagesOpts == { 1, 2, MaxPages }

InitSplit ==
  /\ ServerIdle
  /\ calc \in { [fn |-> "split", fullText |-> t, chunkSizeWords |-> c,
                 maxPages |-> m, returned |-> FALSE, pages |-> << >>] :
                t \in Texts, c \in ChunkSizeOpts, m \in MaxPagesOpts }

\* one call of the splitting part of vectorSearchForPdfBuffer
Split ==
  /\ calc.fn = "split"
  /\ ~calc.returned
  /\ calc' = [calc EXCEPT !.returned = TRUE,
                          !.pages = SplitPages(calc.fullText, calc.chunkSizeWords,
                                               calc.maxPages)]
  /\ UNCHANGED << clock, dirs, req >>

NextSplit == Split

SpecSplit == InitSplit /\ [][NextSplit]_vars

\* ================================= the context given to the completion
\* A context is a sequence of lines; a line is a sequence of characters in
\* which each fixed fragment of a template is kept as one element.
PageMark == "--- Page "
DocMark == "--- Document: "
DashPage == " -- Page "       \* " <em dash> Page "
ScoreMark == " (score="
EndMark == ") ---"

\* score.toFixed(4) of a score held in units of 1/10000
toFixed4(v) ==
  LET abs == IF v < 0 THEN -v ELSE v
      f   == abs % 10000
  IN  (IF v < 0 THEN << "-" >> ELSE << >>)
        \o DecimalString(abs \div 10000) \o << "." >>
        \o << DigitChars[(f \div 1000) + 1], DigitChars[((f \div 100) % 10) + 1],
              DigitChars[((f \div 10) % 10) + 1], DigitChars[(f % 10) + 1] >>

\* vectorStore.js line 182: `--- Page ${p.pageNumber} (score=${p.score.toFixed(4)}) ---`
PageHeader(p) ==
  << PageMark >> \o DecimalString(p.pageNumber) \o << ScoreMark >>
     \o toFixed4(p.score) \o << EndMark >>

\* the excerpt of a unit, one line standing for its text
ExcerptLine == << "(excerpt)" >>

\* the instruction vectorSearchForPdfBuffer puts before its excerpts
VectorStoreInstruction ==
  << "You are an AI assistant. Synthesize a concise one-paragraph summary ..." >>

\* the instruction the /ask handler puts before the documents
HandlerInstruction ==
  << "You are an AI assistant. Use ONLY the information in the provided document page contexts ..." >>

\* the lines of an array of blocks, in order
RECURSIVE Flatten(_)
Flatten(blocks) ==
  IF blocks = << >> THEN << >> ELSE Head(blocks) \o Flatten(Tail(blocks))

\* vectorStore.js lines 180-191: contextForLlama
ContextForLlama(topPages) ==
  << VectorStoreInstruction >>
    \o Flatten([k \in 1..Len(topPages) |-> << PageHeader(topPages[k]), ExcerptLine >>])

\* value of a string of decimal digits
RECURSIVE DigitsValue(_)
DigitsValue(str) ==
  IF str = << >> THEN 0
  ELSE 10 * DigitsValue(SubSeq(str, 1, Len(str) - 1))
         + ((CHOOSE i \in 1..10 : DigitChars[i] = str[Len(str)]) - 1)

\* parseFloat of a string of digits and dots, in units of 1/10000: the
\* digits before the first dot and up to four digits after it
parseFloat4(str) ==
  LET dots  == { i \in 1..Len(str) : str[i] = "." }
      d1    == IF dots = { } THEN Len(str) + 1
               ELSE CHOOSE i \in dots : \A j \in dots : i <= j
      later == { i \in dots : i > d1 }
      d2    == IF later = { } THEN Len(str) + 1
               ELSE CHOOSE i \in later : \A j \in later : i <= j
      frac  == SubSeq(str, d1 + 1, Min(d2 - 1, d1 + 4))
      pad   == [i \in 1..(4 - Len(frac)) |-> "0"]
  IN  DigitsValue(SubSeq(str, 1, d1 - 1)) * 10000 + DigitsValue(frac \o pad)

\* the class [0-9.] of the handler's pattern
IsScoreChar(c) == IsDigit(c) \/ c = "."

\* /--- Page (\d+) \(score=([0-9.]+)\) ---/ on one line: the positions of
\* the score mark and of the end mark when the line matches, 0 otherwise
HeaderMatch(line) ==
  LET marks == { i \in 1..Len(line) : line[i] = ScoreMark }
      ends  == { i \in 1..Len(line) : line[i] = EndMark }
  IN  IF /\ Len(line) >= 5
         /\ line[1] = PageMark
         /\ \E s \in marks, e \in ends :
              /\ s > 2 /\ e > s + 1 /\ e = Len(line)
              /\ \A i \in 2..(s - 1) : IsDigit(line[i])
              /\ \A i \in (s + 1)..(e - 1) : IsScoreChar(line[i])
      THEN CHOOSE s \in marks :
             /\ \A i \in 2..(s - 1) : IsDigit(line[i])
             /\ \A i \in (s + 1)..(Len(line) - 1) : IsScoreChar(line[i])
      ELSE 0

\* part_001 lines 190-192: the replacement of one line
TagLine(line, originalname) ==
  LET s == HeaderMatch(line)
  IN  IF s = 0 THEN line
      ELSE << DocMark >> \o originalname \o << DashPage >> \o SubSeq(line, 2, s - 1)
             \o << ScoreMark >>
             \o toFixed4(parseFloat4(SubSeq(line, s + 1, Len(line) - 1)))
             \o << EndMark >>

\* contextForLlama.replace(pattern, ...) with the g flag: every line
TaggedContext(context, originalname) ==
  [i \in 1..Len(context) |-> TagLine(context[i], originalname)]

\* `${instruction}\n\n${docContexts.join("\n\n")}`
CombinedContext(docContexts) == << HandlerInstruction >> \o Flatten(docContexts)

\* the documents of a request: a display name and the scores of its units
CtxPageCounts == { 1, 2 }
DocPool ==
  { [originalname |-> n, scores |-> sc] :
      n \in { NameB, NameAB },
      sc \in UNION { [1..k -> ScoreValues] : k \in CtxPageCounts } }
DocLists == UNION { [1..n -> DocPool] : n \in 1..MaxDocs }

InitContext ==
  /\ ServerIdle
  /\ calc \in { [fn |-> "context", docs |-> ds, docContexts |-> << >>,
                 returned |-> FALSE, combinedContext |-> << >>] :
                ds \in DocLists }

\* one round of the per-document loop: search, tag, push
SearchAndTag ==
  /\ calc.fn = "context"
  /\ Len(calc.docContexts) < Len(calc.docs)
  /\ LET file == calc.docs[Len(calc.docContexts) + 1]
         contextForLlama == ContextForLlama(TopPages(file.scores, TopK))
     IN  calc' = [calc EXCEPT !.docContexts =
                    Append(@, TaggedContext(contextForLlama, file.originalname))]
  /\ UNCHANGED << clock, dirs, req >>

\* after the loop: the combined context that goes to askWithLlama
Combine ==
  /\ calc.fn = "context"
  /\ Len(calc.docContexts) = Len(calc.docs)
  /\ ~calc.returned
  /\ calc' = [calc EXCEPT !.returned = TRUE,
                          !.combinedContext = CombinedContext(calc.docContexts)]
  /\ UNCHANGED << clock, dirs, req >>

NextContext == SearchAndTag \/ Combine

SpecContext == InitContext /\ [][NextContext]_vars

\* ==================================== vectorStore.js: values and scoring
\* What a provider response is made of: numbers, arrays, objects and
\* undefined, each value carrying its type.
\* n is the value of a number, a the elements of an array, o the
\* properties of an object as pairs of key and value.
Num(n) == [t |-> "number", n |-> n, a |-> << >>, o |-> << >>]
Arr(s) == [t |-> "array", n |-> 0, a |-> s, o |-> << >>]
Obj(f) == [t |-> "object", n |-> 0, a |-> << >>, o |-> f]
Undefined == [t |-> "undefined", n |-> 0, a |-> << >>, o |-> << >>]
NullValue == [t |-> "null", n |-> 0, a |-> << >>, o |-> << >>]

\* Array.isArray(x)
isArray(x) == x.t = "array"

\* typeof x === "number"
isNumber(x) == x.t = "number"

\* a flat vector of numbers
IsFlatVector(x) ==
  isArray(x) /\ \A i \in 1..Len(x.a) : isNumber(x.a[i])

\* the result of floating-point arithmetic: a number or NaN
NaN == [nan |-> TRUE, n |-> 0]
Number(n) == [nan |-> FALSE, n |-> n]

\* a[i] * b[i], with anything that is not a number giving NaN
Times(x, y) ==
  IF isNumber(x) /\ isNumber(y) THEN Number(x.n * y.n) ELSE NaN

Plus(x, y) == IF x.nan \/ y.nan THEN NaN ELSE Number(x.n + y.n)

\* the loop of lines 73-77 for one of dot, na, nb
RECURSIVE SumProducts(_, _, _)
SumProducts(a, b, i) ==
  IF i = 0 THEN Number(0)
  ELSE Plus(SumProducts(a, b, i - 1), Times(a[i], b[i]))

\* dot / (Math.sqrt(na) * Math.sqrt(nb)) in units of 1/10000, rounded
\* towards zero; the division is marked when the divisor is zero
Quotient(dot, na, nb) ==
  IF dot.nan \/ na.nan \/ nb.nan
  THEN [score |-> NaN, dividedByZero |-> FALSE]
  ELSE IF na.n * nb.n = 0
  THEN [score |-> NaN, dividedByZero |-> TRUE]
  ELSE LET abs == IF dot.n < 0 THEN -dot.n ELSE dot.n
           q   == CHOOSE k \in 0..ScoreScale :
                    /\ k * k * na.n * nb.n <= ScoreScale * ScoreScale * abs * abs
                    /\ k = ScoreScale
                       \/ (k + 1) * (k + 1) * na.n * nb.n
                            > ScoreScale * ScoreScale * abs * abs
       IN  [score |-> Number(IF dot.n < 0 THEN -q ELSE q), dividedByZero |-> FALSE]

\* variant: the norms are not looked at before the division
ZeroNorm_Ignored(na, nb) == FALSE

\* na === 0 || nb === 0
ZeroNorm(na, nb) == (~na.nan /\ na.n = 0) \/ (~nb.nan /\ nb.n = 0)

\* lines 70-80
cosineSimilarity(a, b) ==
  IF ~isArray(a) \/ ~isArray(b) \/ Len(a.a) # Len(b.a)
  THEN [score |-> Number(0), dividedByZero |-> FALSE]
  ELSE LET dot == SumProducts(a.a, b.a, Len(a.a))
           na  == SumProducts(a.a, a.a, Len(a.a))
           nb  == SumProducts(b.a, b.a, Len(b.a))
       IN  IF ZeroNorm(na, nb)
           THEN [score |-> Number(0), dividedByZero |-> FALSE]
           ELSE Quotient(dot, na, nb)

\* line 173: the score of one unit against the question
ScoreOf(emb, qEmb) ==
  IF isArray(emb) /\ isArray(qEmb) /\ Len(emb.a) = Len(qEmb.a)
  THEN cosineSimilarity(qEmb, emb)
  ELSE [score |-> Number(0), dividedByZero |-> FALSE]

\* what can stand where an embedding is expected: the vectors of up to
\* MaxDim components, and values that are no flat vector
Components == { -1, 0, 1 }
EmbValues ==
  UNION { { Arr([i \in 1..n |-> Num(f[i])]) : f \in [1..n -> Components] } :
          n \in 0..MaxDim }
    \cup { Undefined, Obj(<< >>), Arr(<< Undefined >>), Arr(<< Arr(<< Num(1) >>) >>) }

InitScore ==
  /\ ServerIdle
  /\ calc \in { [fn |-> "score", emb |-> e, qEmb |-> q, returned |-> FALSE,
                 result |-> [score |-> Number(0), dividedByZero |-> FALSE]] :
                e \in EmbValues, q \in EmbValues }

\* the scoring of one unit
Score ==
  /\ calc.fn = "score"
  /\ ~calc.returned
  /\ calc' = [calc EXCEPT !.returned = TRUE,
                          !.result = ScoreOf(calc.emb, calc.qEmb)]
  /\ UNCHANGED << clock, dirs, req >>

NextScore == Score

SpecScore == InitScore /\ [][NextScore]_vars

\* ================================ vectorStore.js: the embedding gateway
\* typeof x === "object": objects, arrays and null
typeofObject(x) == x.t \in { "object", "array", "null" }

\* x[i] for a zero-based index: undefined outside an array
At(x, i) == IF isArray(x) /\ i < Len(x.a) THEN x.a[i + 1] ELSE Undefined

\* x.key: undefined when the property is missing
Get(x, key) ==
  IF \E i \in 1..Len(x.o) : x.o[i][1] = key
  THEN x.o[CHOOSE i \in 1..Len(x.o) : x.o[i][1] = key][2]
  ELSE Undefined

\* reading a property of null or undefined throws a TypeError
ThrowsOnGet(x) == x.t \in { "null", "undefined" }

\* the value is truthy
truthy(x) ==
  /\ x.t \notin { "null", "undefined" }
  /\ x.t = "number" => x.n # 0

\* d => d.embedding || d
EmbeddingOr(d) == IF truthy(Get(d, "embedding")) THEN Get(d, "embedding") ELSE d

Returned(x) == [threw |-> FALSE, value |-> x]
Thrown == [threw |-> TRUE, value |-> Undefined]

\* lines 34-48 for one of the keys "data" and "result"
FromList(list, isArrayInput) ==
  IF isArrayInput
  THEN IF \E i \in 1..Len(list.a) : ThrowsOnGet(list.a[i]) THEN Thrown
       ELSE Returned(Arr([i \in 1..Len(list.a) |-> EmbeddingOr(list.a[i])]))
  ELSE IF At(list, 0).t = "undefined" THEN Returned(Undefined)
       ELSE IF At(list, 0).t = "null" THEN Returned(NullValue)
       ELSE Returned(EmbeddingOr(At(list, 0)))

\* lines 15-51
normalizeProviderResponse(res, isArrayInput) ==
  IF isArray(res) /\ isArray(At(res, 0)) /\ isNumber(At(At(res, 0), 0))
  THEN Returned(IF isArrayInput THEN res ELSE At(res, 0))
  ELSE IF isArray(res) /\ At(res, 0).t = "null"
  THEN Thrown
  ELSE IF isArray(res) /\ typeofObject(At(res, 0))
          /\ isArray(Get(At(res, 0), "embedding"))
  THEN IF ~isArrayInput THEN Returned(Get(At(res, 0), "embedding"))
       ELSE IF \E i \in 1..Len(res.a) : ThrowsOnGet(res.a[i]) THEN Thrown
       ELSE Returned(Arr([i \in 1..Len(res.a) |-> Get(res.a[i], "embedding")]))
  ELSE IF ~isArrayInput /\ isArray(res) /\ isNumber(At(res, 0))
  THEN Returned(res)
  ELSE IF truthy(res) /\ typeofObject(res) /\ isArray(Get(res, "data"))
  THEN FromList(Get(res, "data"), isArrayInput)
  ELSE IF truthy(res) /\ typeofObject(res) /\ isArray(Get(res, "result"))
  THEN FromList(Get(res, "result"), isArrayInput)
  ELSE IF truthy(res) /\ typeofObject(res) /\ isArray(Get(res, "embedding"))
  THEN Returned(IF isArrayInput THEN Arr(<< Get(res, "embedding") >>)
                ELSE Get(res, "embedding"))
  ELSE Thrown

\* lines 54-67: the provider either fails or answers, and an answer is
\* normalized
callProviderEmbeddings(res, isArrayInput) ==
  normalizeProviderResponse(res, isArrayInput)

\* vectors a provider computes: one per unit, different for different units
UnitVecs ==
  << << 1, 0 >>, << 0, 1 >>, << 1, 1 >>, << 1, -1 >>,
     << -1, 1 >>, << -1, 0 >>, << 0, -1 >>, << -1, -1 >> >>

VecFor(j) ==
  LET v == UnitVecs[((j - 1) % Len(UnitVecs)) + 1]
  IN  Arr(<< Num(v[1]), Num(v[2]) >>)

\* the vector a provider computes for the question
QuestionVec == Arr(<< Num(1), Num(1) >>)

\* what a provider can return in the place of a vector
Junk == { Obj(<< >>), Arr(<< Arr(<< Num(1) >>) >>), NullValue }

\* the items a provider returns for the units first..last: the right
\* ones, one too few, one too many, or one of them replaced
ItemLists(first, last) ==
  LET right == [p \in 1..(last - first + 1) |-> VecFor(first + p - 1)]
  IN  { right, SubSeq(right, 1, Len(right) - 1), Append(right, VecFor(last + 1)) }
        \cup { [right EXCEPT ![p] = j] : p \in 1..Len(right), j \in Junk }

\* the shapes in which a provider sends a list of items
Shapes == { "array", "items", "data", "dataItems", "result", "embedding" }

Item(v) == Obj(<< << "embedding", v >> >>)

\* the shape "embedding" has room for one item only
Carried(shape, items) ==
  IF shape = "embedding" THEN SubSeq(items, 1, Min(1, Len(items))) ELSE items

Encode(shape, items) ==
  CASE shape = "array"     -> Arr(items)
    [] shape = "items"     -> Arr([i \in 1..Len(items) |-> Item(items[i])])
    [] shape = "data"      -> Obj(<< << "data", Arr(items) >> >>)
    [] shape = "dataItems" ->
         Obj(<< << "data", Arr([i \in 1..Len(items) |-> Item(items[i])]) >> >>)
    [] shape = "result"    -> Obj(<< << "result", Arr(items) >> >>)
    [] shape = "embedding" -> IF items = << >> THEN Obj(<< >>)
                              ELSE Obj(<< << "embedding", items[1] >> >>)

\* the same for a single input, which may also be answered by the bare vector
EncodeSingle(shape, item) ==
  IF shape = "array" THEN item ELSE Encode(shape, << item >>)

\* variant: a batch is stored from the start of the array
StoreIndex_FromZero(i, k) == k

\* pageEmbeddings[i + k] = batchEmb[k], with zero-based i and k
StoreIndex(i, k) == i + k

\* lines 154-156
RECURSIVE StoreBatch(_, _, _, _)
StoreBatch(pageEmbeddings, batchEmb, i, k) ==
  IF ~(k < Len(batchEmb.a)) THEN pageEmbeddings
  ELSE StoreBatch([pageEmbeddings EXCEPT ![StoreIndex(i, k) + 1] = batchEmb.a[k + 1]],
                  batchEmb, i, k + 1)

BatchSizeOpts == { 1, 2, BatchSize }

InitEmbed ==
  /\ ServerIdle
  /\ calc \in { [fn |-> "embed", units |-> n, batchSize |-> b,
                 phase |-> "pages", i |-> 0,
                 pageEmbeddings |-> [j \in 1..n |-> Undefined],
                 qEmb |-> Undefined,
                 batches |-> << >>, provided |-> << >>, sizesMatch |-> TRUE,
                 scores |-> << >>] :
                n \in 1..MaxUnits, b \in BatchSizeOpts }

\* one round of the loop of lines 148-157, with the provider's answer
EmbedBatch ==
  /\ calc.fn = "embed"
  /\ calc.phase = "pages"
  /\ calc.i < calc.units
  /\ LET first == calc.i + 1
         last  == Min(calc.i + calc.batchSize, calc.units)
     IN  \E shape \in Shapes, items \in ItemLists(first, last), fails \in BOOLEAN :
           LET sent == Carried(shape, items)
               got  == callProviderEmbeddings(Encode(shape, sent), TRUE)
               seen == [calc EXCEPT
                          !.batches = Append(@, << first, last >>),
                          !.provided = @ \o sent,
                          !.sizesMatch = @ /\ Len(sent) = last - first + 1]
           IN  calc' =
                 IF fails THEN [calc EXCEPT !.phase = "failed"]
                 ELSE IF got.threw \/ ~isArray(got.value)
                         \/ Len(got.value.a) # last - first + 1
                 THEN [seen EXCEPT !.phase = "failed"]
                 ELSE [seen EXCEPT
                         !.pageEmbeddings = StoreBatch(@, got.value, calc.i, 0),
                         !.i = calc.i + calc.batchSize]
  /\ UNCHANGED << clock, dirs, req >>

\* lines 163-168: the question is embedded as a single input
EmbedQuestion ==
  /\ calc.fn = "embed"
  /\ calc.phase = "pages"
  /\ ~(calc.i < calc.units)
  /\ \E shape \in Shapes, item \in { QuestionVec } \cup Junk, fails \in BOOLEAN :
       LET got == callProviderEmbeddings(EncodeSingle(shape, item), FALSE)
       IN  calc' = IF fails \/ got.threw THEN [calc EXCEPT !.phase = "failed"]
                   ELSE [calc EXCEPT !.phase = "score", !.qEmb = got.value]
  /\ UNCHANGED << clock, dirs, req >>

\* lines 171-175
ScoreUnits ==
  /\ calc.fn = "embed"
  /\ calc.phase = "score"
  /\ calc' = [calc EXCEPT
                !.phase = "scored",
                !.scores = [j \in 1..calc.units |->
                              ScoreOf(calc.pageEmbeddings[j], calc.qEmb).score]]
  /\ UNCHANGED << clock, dirs, req >>

NextEmbed == EmbedBatch \/ EmbedQuestion \/ ScoreUnits

SpecEmbed == InitEmbed /\ [][NextEmbed]_vars

\* ============================ one document: from its text to its sources
\* part_001 lines 218-221: pages: d.topPages.map(p => ({ page: p.pageNumber, ... }))
SourcePages(topPages) == [k \in 1..Len(topPages) |-> topPages[k].pageNumber]

DocChunkSizeOpts == { 1, ChunkSizeWords }
DocMaxPagesOpts == { 2, MaxPages }
DocTopKOpts == { 1, TopK }

InitDocument ==
  /\ ServerIdle
  /\ calc \in { [fn |-> "document", fullText |-> t, chunkSizeWords |-> c,
                 maxPages |-> m, phase |-> "text", pages |-> << >>,
                 scored |-> << >>, topPages |-> << >>, sourcePages |-> << >>,
                 context |-> << >>] :
                t \in Texts, c \in DocChunkSizeOpts, m \in DocMaxPagesOpts }

\* vectorStore.js lines 131-143
SplitDocument ==
  /\ calc.fn = "document"
  /\ calc.phase = "text"
  /\ calc' = [calc EXCEPT !.phase = "pages",
                          !.pages = SplitPages(calc.fullText, calc.chunkSizeWords,
                                               calc.maxPages)]
  /\ UNCHANGED << clock, dirs, req >>

\* vectorStore.js lines 171-191 and part_001 lines 190-221: the units are
\* scored and ranked, and the document's context and sources entry are made
RankDocument ==
  /\ calc.fn = "document"
  /\ calc.phase = "pages"
  /\ \E scores \in [1..Len(calc.pages) -> ScoreValues], topK \in DocTopKOpts :
       LET top == TopPages(scores, topK)
       IN  calc' = [calc EXCEPT
                      !.phase = "ranked",
                      !.scored = Scored(scores),
                      !.topPages = top,
                      !.sourcePages = SourcePages(top),
                      !.context = TaggedContext(ContextForLlama(top), NameB)]
  /\ UNCHANGED << clock, dirs, req >>

NextDocument == SplitDocument \/ RankDocument

SpecDocument == InitDocument /\ [][NextDocument]_vars

\* ===================================================== the bundled client
\* App.jsx: the component's state (input, files, uploadId, loading), the
\* fetch that handleSend is waiting for, and the sessions the server has
\* made for this client.  A call of handleSend reads the state of the render
\* it was made in, also after its await.  Two records of the history:
\* fetch.overtaken says that Reset was pressed or files were selected since
\* the fetch began, selection is the list of files selected since the last
\* Send or Reset.
DefaultQuestion == << "Summarize the uploaded files." >>

\* what the user types into the textarea
InputTexts == { << >>, << Space >>, << "q" >> }

\* what the user picks in the file dialog
FileLists == { << >>, << NameB >>, << NameAB >> }

NoForm == [uploadId |-> Null, pdf |-> << >>, question |-> << >>]

NoFetch ==
  [pending |-> FALSE, form |-> NoForm, uploadId |-> Null, overtaken |-> FALSE]

\* variant: the files are attached whether or not an uploadId is held
FormData_AlwaysFiles(uploadId, files, question) ==
  [uploadId |-> uploadId,
   pdf      |-> files,
   question |-> IF question # << >> THEN question ELSE DefaultQuestion]

\* lines 43-53: the form carries the uploadId if one is held and the files
\* otherwise, and the question or its default
FormData(uploadId, files, question) ==
  [uploadId |-> uploadId,
   pdf      |-> IF uploadId # Null THEN << >> ELSE files,
   question |-> IF question # << >> THEN question ELSE DefaultQuestion]

\* the answers POST /ask can give to a form: a failure (a status that is not
\* ok, a network error, the abort after ten minutes), or a success that
\* carries the id of a session the request made or the id the form named
Replies(form, sessions) ==
  { [ok |-> FALSE, uploadId |-> Null] }
    \cup
  ( IF form.uploadId # Null
    THEN IF form.pdf # << >> \/ form.uploadId \in sessions
         THEN { [ok |-> TRUE, uploadId |-> form.uploadId] }
         ELSE { }
    ELSE IF form.pdf # << >>
         THEN { [ok |-> TRUE, uploadId |-> id] : id \in IdPool \ sessions }
         ELSE { } )

InitClient ==
  /\ ServerIdle
  /\ calc = [fn |-> "client", input |-> << >>, files |-> << >>,
             uploadId |-> Null, loading |-> FALSE, fetch |-> NoFetch,
             sessions |-> { }, selection |-> << >>]

\* line 185: onChange={(e) => setInput(e.target.value)}
onInputChange ==
  /\ calc.fn = "client"
  /\ \E text \in InputTexts \ { calc.input } :
       calc' = [calc EXCEPT !.input = text]
  /\ UNCHANGED << clock, dirs, req >>

\* lines 23-28
onFilesSelected ==
  /\ calc.fn = "client"
  /\ \E list \in FileLists :
       calc' = [calc EXCEPT
                  !.uploadId = IF @ # Null THEN Null ELSE @,
                  !.files = list,
                  !.selection = list,
                  !.fetch.overtaken = calc.fetch.pending]
  /\ UNCHANGED << clock, dirs, req >>

\* lines 116-124: the Reset button's onClick
onReset ==
  /\ calc.fn = "client"
  /\ calc' = [calc EXCEPT
                !.uploadId = Null,
                !.files = << >>,
                !.selection = << >>,
                !.fetch.overtaken = calc.fetch.pending]
  /\ UNCHANGED << clock, dirs, req >>

\* lines 30-65: the form is submitted (the Send button is disabled while
\* loading); handleSend returns early when there is nothing to send, and
\* otherwise builds the form and starts the fetch
handleSend ==
  /\ calc.fn = "client"
  /\ ~calc.loading
  /\ LET question == trim(calc.input)
     IN  /\ ~(question = << >> /\ Len(calc.files) = 0 /\ calc.uploadId = Null)
         /\ calc' = [calc EXCEPT
                       !.input = << >>,
                       !.loading = TRUE,
                       !.selection = << >>,
                       !.fetch = [pending |-> TRUE,
                                  form |-> FormData(calc.uploadId, calc.files,
                                                    question),
                                  uploadId |-> calc.uploadId,
                                  overtaken |-> FALSE]]
  /\ UNCHANGED << clock, dirs, req >>

\* lines 74-89 and 95-97: the response is ok.  data.uploadId is stored; the
\* files are cleared if the call of handleSend held no uploadId
ResponseOk ==
  /\ calc.fn = "client"
  /\ calc.fetch.pending
  /\ \E data \in { d \in Replies(calc.fetch.form, calc.sessions) : d.ok } :
       calc' = [calc EXCEPT
                  !.uploadId = IF data.uploadId # Null THEN data.uploadId ELSE @,
                  !.files = IF calc.fetch.uploadId = Null THEN << >> ELSE @,
                  !.sessions = @ \cup { data.uploadId },
                  !.loading = FALSE,
                  !.fetch = NoFetch]
  /\ UNCHANGED << clock, dirs, req >>

\* lines 69-72 and 90-97: the response is not ok, or the fetch fails
ResponseFailed ==
  /\ calc.fn = "client"
  /\ calc.fetch.pending
  /\ \E data \in { d \in Replies(calc.fetch.form, calc.sessions) : ~d.ok } :
       calc' = [calc EXCEPT !.loading = FALSE, !.fetch = NoFetch]
  /\ UNCHANGED << clock, dirs, req >>

NextClient ==
  \/ onInputChange
  \/ onFilesSelected
  \/ onReset
  \/ handleSend
  \/ ResponseOk
  \/ ResponseFailed

SpecClient == InitClient /\ [][NextClient]_vars

\* ================================================================ claims
Done(r) == req[r].pc = "done"

\* the handler's first part has run for r
Resolved(r) == req[r].pc \notin { "idle", "upload" }

Status(r) == req[r].response.status

OriginalNamesOf(fl) == { fl[i].originalname : i \in 1..Len(fl) }

FileNamesOf(fl) == [i \in 1..Len(fl) |-> fl[i].filename]

\* r uploaded files without an upload id and was answered with a session id
UploadedSession(r) ==
  /\ Done(r) /\ Status(r) = 200
  /\ Len(req[r].parts) > 0
  /\ req[r].bodyUploadId = Null

\* the step in which the handler of r resolves its documents
Resolving(r) == req[r].pc = "upload" /\ req'[r].pc # "upload"

\* files of request r that are stored anywhere under the upload root
StoredFilesOf(r) ==
  { << d, n >> \in UNION { { << d, n >> : n \in DOMAIN dirs[d] } : d \in DOMAIN dirs } :
      dirs[d][n][1] = r }

\* ------------------------------------------------------------------ C1
\* C1: a session id S returned to a request that uploaded files without an
\* uploadId, sent back as uploadId of a later request without files, makes
\* that request resolve the same set of display names as the first one.
C1_RoundTrip ==
  [][\A r1 \in Reqs, r2 \in Reqs :
       ( /\ UploadedSession(r1)
         /\ Resolving(r2)
         /\ Len(req[r2].parts) = 0
         /\ req'[r2].bodyUploadId = req[r1].response.uploadId )
       => OriginalNamesOf(req'[r2].files) = OriginalNamesOf(req[r1].parts)]_vars

\* ------------------------------------------------------------------ C2
\* C2: a request with at least one file always gets a freshly minted
\* session id, different from an uploadId it supplied; a success response
\* returns that id, and the id names a session directory that holds
\* exactly the files of this request.
C2_FreshIdForFiles ==
  \A r \in Reqs :
    (Resolved(r) /\ Len(req[r].parts) > 0) =>
      /\ req[r].uploadId \in IdPool
      /\ req[r].uploadId # req[r].bodyUploadId
      /\ (Done(r) /\ Status(r) = 200) =>
           LET S == req[r].response.uploadId
           IN  /\ S = req[r].uploadId
               /\ S \in (DOMAIN dirs) \ { Root }
               /\ DOMAIN dirs[S] = { req[r].allFiles[i].filename :
                                       i \in 1..Len(req[r].allFiles) }
               /\ \A i \in 1..Len(req[r].allFiles) :
                    dirs[S][req[r].allFiles[i].filename] = << r, i >>

\* ------------------------------------------------------------------ C3
\* the session id a response carries; a response without the field
\* carries none
ExposedId(resp) == IF resp.hasUploadId THEN resp.uploadId ELSE Null

\* the session the request created or resolved, if any
ResultingSessionId(r) ==
  IF req[r].uploadId \in (DOMAIN dirs) \ { Root } THEN req[r].uploadId ELSE Null

\* C3: every response, success or error, carries the resulting session id
\* (null when there is none); a request that created a session directory
\* returns that directory's id.
C3_EveryResponseExposesId ==
  \A r \in Reqs : Done(r) => ExposedId(req[r].response) = ResultingSessionId(r)

\* ------------------------------------------------------------------ C4
\* C4: a request with no files and no uploadId, whatever its question, is
\* answered 400 by the handler's first part, which changes nothing on disk;
\* no extraction, embedding or completion call is made for it, then or later.
C4_NoInputRejected ==
  [][\A r \in Reqs :
       /\ ( /\ Resolving(r)
            /\ Len(req[r].parts) = 0
            /\ req'[r].bodyUploadId = Null )
          => /\ req'[r].pc = "done"
             /\ req'[r].response.status = 400
             /\ req'[r].response.error = "No PDFs uploaded"
             /\ req'[r].calls = NoCalls
             /\ dirs' = dirs
       /\ Done(r) => req'[r] = req[r]]_vars

C4_Witness ==
  \E r \in Reqs :
    /\ Done(r) /\ Status(r) = 400
    /\ Len(req[r].parts) = 0
    /\ req[r].bodyUploadId = Null
    /\ Truthy(req[r].question)
    /\ req[r].calls = NoCalls

\* ------------------------------------------------------------------ C5
\* C5: a request rejected for a missing question has had no side effect:
\* it created no session directory and none of its files is stored on disk.
C5_MissingQuestionNoSideEffects ==
  \A r \in Reqs :
    (Done(r) /\ req[r].response.error = "No question provided") =>
      /\ StoredFilesOf(r) = {}
      /\ \A i \in 1..Len(req[r].allFiles) : req[r].allFiles[i].savedToUploadId = Null

\* ------------------------------------------------------------------ C6
\* C6: a request that resolves at least one document and whose question is
\* the empty string is not rejected with a 400 response.
C6_EmptyQuestionAccepted ==
  \A r \in Reqs :
    ( /\ Resolved(r)
      /\ Len(req[r].files) > 0
      /\ req[r].question.given
      /\ req[r].question.text = << >> )
    => ~(Done(r) /\ Status(r) = 400)

C8_DocumentFailureAborts ==
  [][\A r \in Reqs :
       req'[r].failed \in { "extract", "embed" } =>
         /\ req'[r].pc = "done"
         /\ req'[r].response.status = 500
         /\ ~req'[r].response.hasAnswer
         /\ req'[r].response.sources = << >>
         /\ req'[r].calls.complete = 0
         /\ req[r].failed # "" => req'[r] = req[r]]_vars

\* the second page batch of the first of two documents failed
C8_Witness ==
  \E r \in Reqs :
    /\ Done(r) /\ Status(r) = 500
    /\ req[r].failed = "embed"
    /\ Len(req[r].files) = 2
    /\ req[r].calls.extract = 2
    /\ req[r].calls.embed = 2

\* ------------------------------------------------------------------ C9
\* C9: the completion capability is invoked at most once per request, and
\* only when every resolved document has been extracted, embedded and
\* ranked without failure; a failed invocation ends the request with a 500
\* response and nothing is invoked afterwards.
C9_CompletionOnceAfterAllDocuments ==
  [][\A r \in Reqs :
       /\ req'[r].calls.complete <= 1
       /\ req'[r].calls.complete > req[r].calls.complete =>
            /\ req[r].failed = ""
            /\ Len(req[r].perDocTopPages) = Len(req[r].files)
            /\ req[r].calls.extract = 2 * Len(req[r].files)
            /\ req[r].calls.embed >= 2 * Len(req[r].files)
            /\ req'[r].pc = "done"
            /\ req'[r].failed = "complete" =>
                 /\ req'[r].response.status = 500
                 /\ ~req'[r].response.hasAnswer
       /\ req[r].failed = "complete" => req'[r] = req[r]]_vars

C9_Witness ==
  \E r \in Reqs :
    /\ Done(r) /\ Status(r) = 500
    /\ req[r].failed = "complete"
    /\ req[r].calls.complete = 1
    /\ Len(req[r].files) = 2

\* ----------------------------------------------------------------- C10
\* C10: a success response has one sources entry per resolved document, in
\* the order the documents were submitted: the order of the parts for an
\* upload, and for a follow-up the order of the parts of the upload that
\* created the session.
C10_SourcesInSubmissionOrder ==
  \A r \in Reqs :
    (Done(r) /\ Status(r) = 200) =>
      /\ Len(req[r].response.sources) = Len(req[r].files)
      /\ \A i \in 1..Len(req[r].files) :
           req[r].response.sources[i].filename = req[r].files[i].originalname
      /\ Len(req[r].parts) > 0 =>
           FileNamesOf(req[r].files) = FileNamesOf(req[r].allFiles)
      /\ Len(req[r].parts) = 0 =>
           \A r1 \in Reqs :
             (UploadedSession(r1) /\ req[r1].response.uploadId = req[r].bodyUploadId)
             => FileNamesOf(req[r].files) = FileNamesOf(req[r1].allFiles)

\* ----------------------------------------------------------------- C11
\* C11: for every integer topK the ranker returns no more than
\* min(topK, n) of a document's n units (none when that is negative),
\* and for topK >= 1 no fewer.
Ranked == calc.fn = "rank" /\ calc.returned

C11_CountIsMinTopK ==
  Ranked =>
    LET n == Len(calc.scores)
        m == Min(calc.topK, n)
    IN  /\ Len(calc.topPages) <= Max(m, 0)
        /\ calc.topK >= 1 => Len(calc.topPages) >= m

\* ----------------------------------------------------------------- C12
\* C12: the returned units are in non-increasing score order, equal
\* scores in ascending page order, and no unit left out would rank before
\* a returned one.
RanksBefore(a, b) ==
  \/ a.score > b.score
  \/ a.score = b.score /\ a.pageNumber < b.pageNumber

C12_RankedOrder ==
  Ranked =>
    LET out  == calc.topPages
        all  == { Scored(calc.scores)[i] : i \in 1..Len(calc.scores) }
        kept == { out[i] : i \in 1..Len(out) }
    IN  /\ kept \subseteq all
        /\ \A i, j \in 1..Len(out) : i < j => RanksBefore(out[i], out[j])
        /\ \A u \in all \ kept : \A v \in kept : ~RanksBefore(u, v)

\* a call that had to break a tie and to leave a unit out
C12_Witness ==
  /\ Ranked
  /\ Len(calc.topPages) >= 2
  /\ Len(calc.topPages) < Len(calc.scores)
  /\ calc.topPages[1].score = calc.topPages[2].score
  /\ \E i \in 1..Len(calc.scores) : calc.scores[i] < calc.topPages[2].score

\* ----------------------------------------------------------------- C13
\* the split has returned
Splitted == calc.fn = "split" /\ calc.returned

\* the k-th smallest member of a set of positions
Kth(S, k) == CHOOSE i \in S : Cardinality({ j \in S : j < i }) = k - 1

\* the non-blank positions of the form-feed-separated segment that starts
\* at position i of the text
SegmentInk(text, i) ==
  { k \in i..Len(text) :
      /\ ~IsSpace(text[k])
      /\ \A j \in i..k : text[j] # FF }

\* where the segments that are non-empty after trimming start
NonEmptySegments(text) ==
  { i \in 1..Len(text) :
      /\ i = 1 \/ text[i - 1] = FF
      /\ SegmentInk(text, i) # { } }

\* a segment without the white space around it
TrimmedSegment(text, i) ==
  LET ink == SegmentInk(text, i)
  IN  SubSeq(text, Kth(ink, 1), Kth(ink, Cardinality(ink)))

\* the units are the first `count` non-empty trimmed segments, in order
UnitsAreSegments(count) ==
  /\ Len(calc.pages) = count
  /\ \A k \in 1..count :
       calc.pages[k] =
         TrimmedSegment(calc.fullText, Kth(NonEmptySegments(calc.fullText), k))

\* C13 as stated: for every text with a form feed the units are exactly
\* the segments that are non-empty after trimming, in original order.
C13_UnitsAreAllSegments ==
  Splitted /\ includes(calc.fullText, FF) =>
    UnitsAreSegments(Cardinality(NonEmptySegments(calc.fullText)))

\* C13: for every text with a form feed and at least one segment that is
\* non-empty after trimming, the units are the first maxPages such
\* segments, trimmed, in original order.
C13_UnitsAreSegmentsUpToCap ==
  Splitted /\ includes(calc.fullText, FF)
           /\ NonEmptySegments(calc.fullText) # { } =>
    UnitsAreSegments(Min(Cardinality(NonEmptySegments(calc.fullText)),
                         calc.maxPages))

\* two segments survive, one empty segment is dropped and white space is
\* trimmed away
C13_Witness ==
  /\ Splitted
  /\ Len(calc.pages) = 2
  /\ Cardinality({ i \in 1..Len(calc.fullText) : calc.fullText[i] = FF }) >= 2
  /\ \E i \in 1..Len(calc.fullText) : calc.fullText[i] = Space

\* ----------------------------------------------------------------- C14
\* where the words (maximal runs of non-blank characters) start
WordStarts(text) ==
  { i \in 1..Len(text) : ~IsSpace(text[i]) /\ (i = 1 \/ IsSpace(text[i - 1])) }

\* the word that starts at position i
WordAt(text, i) ==
  SubSeq(text, i,
         CHOOSE j \in i..Len(text) :
           /\ \A k \in i..j : ~IsSpace(text[k])
           /\ j = Len(text) \/ IsSpace(text[j + 1]))

\* the words of a text, in order
WordsOf(text) ==
  [k \in 1..Cardinality(WordStarts(text)) |-> WordAt(text, Kth(WordStarts(text), k))]

CeilDiv(a, b) == (a + b - 1) \div b

\* the units are the first `count` groups of chunkSizeWords words
UnitsAreChunks(count) ==
  LET words == WordsOf(calc.fullText)
      c     == calc.chunkSizeWords
  IN  /\ Len(calc.pages) = count
      /\ \A k \in 1..count :
           WordsOf(calc.pages[k]) =
             SubSeq(words, (k - 1) * c + 1, Min(k * c, Len(words)))

\* C14 as stated: for every text without a form feed the units are the
\* ceil(wordCount / chunkSizeWords) consecutive groups of words, capped
\* at maxPages.
C14_UnitsAreAllChunks ==
  Splitted /\ ~includes(calc.fullText, FF) =>
    UnitsAreChunks(Min(CeilDiv(Len(WordsOf(calc.fullText)), calc.chunkSizeWords),
                       calc.maxPages))

\* C14: for every text without a form feed and with at least one word,
\* the units are the ceil(wordCount / chunkSizeWords) consecutive groups
\* of words, capped at maxPages.
C14_UnitsAreChunksOfWords ==
  Splitted /\ ~includes(calc.fullText, FF)
           /\ Len(WordsOf(calc.fullText)) >= 1 =>
    UnitsAreChunks(Min(CeilDiv(Len(WordsOf(calc.fullText)), calc.chunkSizeWords),
                       calc.maxPages))

\* three words in chunks of two: a full group and a shorter last one
C14_Witness ==
  /\ Splitted
  /\ ~includes(calc.fullText, FF)
  /\ Len(WordsOf(calc.fullText)) = 3
  /\ calc.chunkSizeWords = 2
  /\ Len(calc.pages) = 2

\* ----------------------------------------------------------------- C15
\* C15: an empty or white-space-only text, form feeds included, gives
\* exactly one unit whose text is the original text.
C15_BlankTextIsOneUnit ==
  Splitted /\ (\A i \in 1..Len(calc.fullText) : IsSpace(calc.fullText[i])) =>
    calc.pages = << calc.fullText >>

\* a text of blanks and a form feed came back as one unit
C15_Witness ==
  /\ Splitted
  /\ Len(calc.fullText) >= 2
  /\ includes(calc.fullText, FF)
  /\ includes(calc.fullText, Space)
  /\ \A i \in 1..Len(calc.fullText) : IsSpace(calc.fullText[i])
  /\ calc.pages = << calc.fullText >>

\* ----------------------------------------------------------------- C16
\* r uploaded new files and its handler minted a session for them
MintedSession(r) ==
  /\ Resolved(r)
  /\ Len(req[r].parts) > 0
  /\ req[r].bodyUploadId = Null

\* C16: concurrent requests that upload new files get session ids of
\* their own, and each session directory holds only files of its own
\* request, with the content that request uploaded.
C16_SessionsHoldOwnFiles ==
  \A r \in Reqs :
    MintedSession(r) =>
      /\ \A r2 \in Reqs \ { r } :
           MintedSession(r2) => req[r2].uploadId # req[r].uploadId
      /\ req[r].uploadId \in (DOMAIN dirs) \ { Root }
      /\ \A n \in DOMAIN dirs[req[r].uploadId] :
           \E i \in 1..Len(req[r].parts) :
             dirs[req[r].uploadId][n] = req[r].parts[i].content

\* ----------------------------------------------------------------- C17
\* C17: once a session directory has been written, no step of any
\* request adds, removes or replaces a file in it.
C17_SessionsImmutable ==
  [][\A S \in (DOMAIN dirs) \ { Root } :
       S \in DOMAIN dirs' /\ dirs'[S] = dirs[S]]_vars

\* a session was written, its id was disclosed, and a later request that
\* sent files together with that id has been answered
C17_Witness ==
  \E r1, r2 \in Reqs :
    /\ MintedSession(r1) /\ Done(r1)
    /\ DOMAIN dirs[req[r1].uploadId] # { }
    /\ Done(r2) /\ Status(r2) = 200
    /\ Len(req[r2].parts) > 0
    /\ req[r2].bodyUploadId = req[r1].uploadId

\* ----------------------------------------------------------------- C18
\* C18: two distinct uploaded files, of one request or of two, never
\* have the same storage path, also when their names are equal or
\* sanitize to the same string and they are stored in the same tick.
C18_StoragePathsDistinct ==
  \A r1, r2 \in Reqs :
    \A i \in 1..Len(req[r1].allFiles), j \in 1..Len(req[r2].allFiles) :
      (r1 # r2 \/ i # j) => req[r1].allFiles[i].path # req[r2].allFiles[j].path

\* ----------------------------------------------------------------- C19
Combined == calc.fn = "context" /\ calc.returned

\* the header lines of a context: those that open a unit
HeaderLines(context) ==
  SelectSeq(context, LAMBDA line : line # << >> /\ line[1] \in { PageMark, DocMark })

\* the header that names the document, the page and the score
NamedHeader(originalname, p) ==
  << DocMark >> \o originalname \o << DashPage >> \o DecimalString(p.pageNumber)
     \o << ScoreMark >> \o toFixed4(p.score) \o << EndMark >>

\* C19: for every unit in the combined context, whatever its score, the
\* header line names the document's display name, the page number and
\* the score with 4 decimal places.
C19_HeadersNameDocument ==
  Combined =>
    \A d \in 1..Len(calc.docs) :
      LET top == TopPages(calc.docs[d].scores, TopK)
      IN  HeaderLines(calc.docContexts[d]) =
            [k \in 1..Len(top) |-> NamedHeader(calc.docs[d].originalname, top[k])]

\* ----------------------------------------------------------------- C20
IsInstruction(line) == line \in { HandlerInstruction, VectorStoreInstruction }

ScoredOne == calc.fn = "score" /\ calc.returned

\* a vector of numbers that are all zero
IsZeroVector(x) ==
  IsFlatVector(x) /\ \A i \in 1..Len(x.a) : x.a[i].n = 0

\* the number of components of an array, -1 for anything else
LengthOf(x) == IF isArray(x) THEN Len(x.a) ELSE -1

\* C21: scoring returns for every pair of values, never divides by zero,
\* and gives 0 whenever one vector has zero norm or the two lengths
\* differ.
C21_ScoreIsTotal ==
  ScoredOne =>
    /\ ~calc.result.dividedByZero
    /\ ( \/ LengthOf(calc.emb) # LengthOf(calc.qEmb)
         \/ IsZeroVector(calc.emb)
         \/ IsZeroVector(calc.qEmb) )
       => calc.result.score = Number(0)

\* the three cases of the claim, and a proper score, have been scored
C21_Witness ==
  /\ ScoredOne
  /\ IsZeroVector(calc.emb) /\ Len(calc.emb.a) = MaxDim
  /\ IsFlatVector(calc.qEmb) /\ Len(calc.qEmb.a) = MaxDim
  /\ ~IsZeroVector(calc.qEmb)
  /\ calc.result.score = Number(0)

\* ----------------------------------------------------------------- C22
\* every unit has been embedded
PagesEmbedded ==
  calc.fn = "embed" /\ calc.phase # "failed" /\ ~(calc.i < calc.units)

\* C22: the units are embedded in consecutive batches of at most
\* batchSize, in order; after a successful embedding step the j-th stored
\* vector is what the provider returned for the j-th unit (the item
\* itself when the gateway finds no vector in it); a batch answered with
\* another number of items than it has inputs fails the step.
C22_BatchesAligned ==
  calc.fn = "embed" =>
    /\ \A b \in 1..Len(calc.batches) :
         /\ calc.batches[b][1] = (IF b = 1 THEN 1 ELSE calc.batches[b - 1][2] + 1)
         /\ calc.batches[b][2] >= calc.batches[b][1]
         /\ calc.batches[b][2] - calc.batches[b][1] + 1 <= calc.batchSize
    /\ ~calc.sizesMatch => calc.phase = "failed"
    /\ PagesEmbedded =>
         /\ calc.batches # << >>
         /\ calc.batches[Len(calc.batches)][2] = calc.units
         /\ \A j \in 1..calc.units :
              calc.pageEmbeddings[j] \in { calc.provided[j], Item(calc.provided[j]) }

\* three units went through two batches
C22_Witness ==
  /\ PagesEmbedded
  /\ calc.units = 3
  /\ Len(calc.batches) = 2
  /\ \A j \in 1..calc.units : calc.pageEmbeddings[j] = VecFor(j)

\* ----------------------------------------------------------------- C23
\* C23: whatever the provider sends, what passes the gateway and reaches
\* scoring is, for every unit and for the question, a flat vector of
\* numbers.
C23_OnlyFlatVectorsPass ==
  (calc.fn = "embed" /\ calc.phase \in { "score", "scored" }) =>
    /\ IsFlatVector(calc.qEmb)
    /\ \A j \in 1..calc.units : IsFlatVector(calc.pageEmbeddings[j])

\* ----------------------------------------------------------------- C24
\* the page number a header line shows: the digits before the score
HeaderPage(line) ==
  LET s == CHOOSE i \in 1..Len(line) : line[i] = ScoreMark
      b == IF line[1] = PageMark THEN 1
           ELSE CHOOSE i \in 1..Len(line) : line[i] = DashPage
  IN  DigitsValue(SubSeq(line, b + 1, s - 1))

\* a sequence without repetition
NoRepeat(seq) == \A i, j \in 1..Len(seq) : i # j => seq[i] # seq[j]

\* C24: a text yields n units, 1 <= n <= maxPages, numbered 1..n in text
\* order, and every page number in the document's sources entry or in a
\* context header is in 1..n and appears once at most.
C24_PageNumbersDense ==
  calc.fn = "document" =>
    /\ calc.phase # "text" =>
         Len(calc.pages) >= 1 /\ Len(calc.pages) <= calc.maxPages
    /\ calc.phase = "ranked" =>
         LET n       == Len(calc.pages)
             headers == HeaderLines(calc.context)
             shown   == [k \in 1..Len(headers) |-> HeaderPage(headers[k])]
         IN  /\ Len(calc.scored) = n
             /\ \A i \in 1..n : calc.scored[i].pageNumber = i
             /\ \A k \in 1..Len(calc.sourcePages) : calc.sourcePages[k] \in 1..n
             /\ NoRepeat(calc.sourcePages)
             /\ \A k \in 1..Len(shown) : shown[k] \in 1..n
             /\ NoRepeat(shown)

\* a text of three words was cut to two units by the cap, and both are
\* in the sources, the second one first
C24_Witness ==
  /\ calc.fn = "document" /\ calc.phase = "ranked"
  /\ Len(WordsOf(calc.fullText)) = 3
  /\ calc.chunkSizeWords = 1
  /\ Len(calc.pages) = 2
  /\ calc.sourcePages = << 2, 1 >>
  /\ Len(HeaderLines(calc.context)) = 2

\* ----------------------------------------------------------------- C25
\* a response in the success shape or in the error shape
WellShaped(resp) ==
  \/ /\ resp.status = 200
     /\ resp.hasAnswer /\ resp.error = ""
  \/ /\ resp.status \in { 400, 500 }
     /\ ~resp.hasAnswer /\ resp.error # "" /\ resp.sources = << >>

\* the handler of r, or the upload before it, has a step to take
CanProceed(r) ==
  ENABLED (StageFile(r) \/ Handler(r) \/ ParseDoc(r) \/ VectorSearch(r) \/ AskLlama(r))

\* C25: every request that reaches the handler is answered exactly once,
\* on every path, in the success or in the error shape: a request that is
\* not answered yet always has a step to take, and a request is never
\* answered a second time.
C25_ExactlyOneResponse ==
  \A r \in Reqs :
    /\ req[r].responses <= 1
    /\ Done(r) <=> req[r].responses = 1
    /\ Done(r) => WellShaped(req[r].response)
    /\ req[r].pc \notin { "idle", "done" } => CanProceed(r)

\* both requests have been answered, one after a failed file move and one
\* with success
C25_Witness ==
  \E r1, r2 \in Reqs :
    /\ Done(r1) /\ req[r1].failed = "move" /\ Status(r1) = 500
    /\ Done(r2) /\ Status(r2) = 200

\* ----------------------------------------------------------------- C26
\* the session directories
Sessions == (DOMAIN dirs) \ { Root }

C27_FollowUpStaysInSession ==
  \A r \in Reqs :
    (Resolved(r) /\ Len(req[r].parts) = 0 /\ Len(req[r].files) > 0) =>
      /\ req[r].bodyUploadId \in Sessions
      /\ \E r1 \in Reqs \ { r } :
           MintedSession(r1) /\ req[r1].uploadId = req[r].bodyUploadId
      /\ \A i \in 1..Len(req[r].files) :
           req[r].files[i].path[1] = req[r].bodyUploadId

\* the client is waiting for the answer to a request it sent
InFlight == calc.fn = "client" /\ calc.fetch.pending

\* C28: every request the client sends carries either the uploadId the
\* client held when it sent it, and then no file, or, when it held none, the
\* files that were selected: never an uploadId together with files.
C28_UploadIdOrFiles ==
  [][ (calc.fn = "client" /\ ~calc.fetch.pending /\ calc'.fetch.pending) =>
        LET form == calc'.fetch.form
        IN  /\ ~(form.uploadId # Null /\ form.pdf # << >>)
            /\ calc.uploadId # Null =>
                 form.uploadId = calc.uploadId /\ form.pdf = << >>
            /\ calc.uploadId = Null =>
                 form.uploadId = Null /\ form.pdf = calc.files ]_vars

\* a request that carries an uploadId was sent while files were selected
C28_Witness ==
  /\ InFlight
  /\ calc.fetch.form.uploadId # Null
  /\ calc.fetch.form.pdf = << >>
  /\ calc.files # << >>
  /\ ~calc.fetch.overtaken

\* C29: the client's uploadId is only set by the response to a request that
\* was sent after the most recent Reset or file selection, and the files
\* selected since the last Send or Reset are what the next Send attaches.
C29_StaleResponseIgnored ==
  [][ calc.fn = "client" =>
        /\ (calc'.uploadId # Null /\ calc'.uploadId # calc.uploadId) =>
             ~calc.fetch.overtaken
        /\ (~calc.fetch.pending /\ calc'.fetch.pending
              /\ calc.selection # << >>) =>
             calc'.fetch.form.pdf = calc.selection ]_vars

====
